---- MODULE Spec2Model ----
\* Model of the evaluated-machine core of machineboss:
\*   src/src/machine.h     Machine, MachineState, MachineTransition
\*   src/src/eval.cpp      EvaluatedMachine (init, sumInTrans, explicitMachine)
\*   src/src/params.cpp    Params (readJson, writeJson)
\*   src/src/nano/caller.h BaseCallingMachine state layout
EXTENDS Integers, Sequences, FiniteSets, TLC

\* ---------------------------------------------------------------------
\* Bounds of the model
\* ---------------------------------------------------------------------
MaxStates == 2
MaxTrans == 2

VARIABLES
  machine,   \* the symbolic Machine handed to the constructor
  params,    \* the Params* handed to init: [null, defs], defs a set of <<name, value>>
  pc,        \* "new" | "built" | "failed" (lifecycle of the EvaluatedMachine)
  em,        \* << >> while there is no EvaluatedMachine, else <<the object>>
  err,       \* the fatal error of a failed constructor
  nEvals,    \* number of transitions init has evaluated and stored
  ret,       \* value returned by the last query on the EvaluatedMachine
  param,     \* Params::param of the Params object being written
  text,      \* the characters Params::writeJson put on the stream
  recv,      \* Params::param of the Params object that reads the text
  ppc,       \* "init" | "written" | "read" | "readFailed"
  bcm,       \* BaseCallingMachine fields [nKmers, components]
  kmers,     \* the kmers and the component the layout is queried for
  idx        \* the state indices returned by kmerEmit / kmerEnd / kmerStart

vars == <<machine, params, pc, em, err, nEvals, ret, param, text, recv, ppc, bcm, kmers, idx>>

evalVars == <<machine, params, pc, em, err, nEvals, ret>>
paramVars == <<param, text, recv, ppc>>
callerVars == <<bcm, kmers, idx>>

Null == "NULL"

\* ---------------------------------------------------------------------
\* Exact rationals <<numerator, denominator>> (denominator > 0, lowest
\* terms) stand for the doubles of the program.
\* ---------------------------------------------------------------------
RECURSIVE Gcd(_, _)
Gcd(a, b) == IF b = 0 THEN a ELSE Gcd(b, a % b)

Abs(a) == IF a < 0 THEN -a ELSE a

RatNorm(n, d) ==
  LET s == IF d < 0 THEN -1 ELSE 1
      g == Gcd(Abs(n), Abs(d))
  IN  <<(s * n) \div g, (s * d) \div g>>

Zero == <<0, 1>>
Half == <<1, 2>>
One == <<1, 1>>

RatAdd(a, b) == RatNorm(a[1] * b[2] + b[1] * a[2], a[2] * b[2])
RatSub(a, b) == RatNorm(a[1] * b[2] - b[1] * a[2], a[2] * b[2])
RatMul(a, b) == RatNorm(a[1] * b[1], a[2] * b[2])
RatDiv(a, b) == RatNorm(a[1] * b[2], a[2] * b[1])
RatLess(a, b) == a[1] * b[2] < b[1] * a[2]
RatLeq(a, b) == a[1] * b[2] <= b[1] * a[2]

\* a double that is not a number (denominator 0)
NaN == <<0, 0>>

\* log(x): a finite logarithm is kept as the number it is the logarithm of;
\* log(0) is -inf and the logarithm of a negative number (or of NaN) is NaN.
Log(x) ==
  IF x[2] = 0 THEN [k |-> "nan", x |-> Zero]
  ELSE IF x[1] > 0 THEN [k |-> "fin", x |-> x]
  ELSE IF x[1] = 0 THEN [k |-> "ninf", x |-> Zero]
  ELSE [k |-> "nan", x |-> Zero]

\* exp(lw): exp(-inf) = 0, exp(NaN) = NaN
Exp(lw) ==
  IF lw.k = "fin" THEN lw.x
  ELSE IF lw.k = "ninf" THEN Zero
  ELSE NaN

\* the literal 0. of init: the logarithm of 1
LogZero == [k |-> "fin", x |-> One]

\* ---------------------------------------------------------------------
\* Maps (std::map) as functions with a finite domain of naturals
\* ---------------------------------------------------------------------
EmptyMap == << >>

MapGet(m, k, dflt) == IF k \in DOMAIN m THEN m[k] ELSE dflt

MapPut(m, k, v) == [x \in (DOMAIN m) \cup {k} |-> IF x = k THEN v ELSE m[x]]

Min(S) == CHOOSE x \in S : \A y \in S : x <= y

RECURSIVE SortedKeys(_)
SortedKeys(S) ==
  IF S = {} THEN << >>
  ELSE <<Min(S)>> \o SortedKeys(S \ {Min(S)})

\* StateTransMap::insert: the entry goes after every entry whose key is not
\* greater (entries of one key stay in insertion order)
StateTransMapInsert(stm, key, val) ==
  LET below == SelectSeq(stm, LAMBDA e : e.key <= key)
      above == SelectSeq(stm, LAMBDA e : e.key > key)
  IN  below \o <<[key |-> key, val |-> val]>> \o above

\* ---------------------------------------------------------------------
\* Machine (machine.h)
\* ---------------------------------------------------------------------
\* the <<in, out>> labels the machines of the model carry: silent, input
\* only, and input with output
Labels == {<<"", "">>, <<"a", "">>, <<"b", "x">>}

LitWeight(v) == [tag |-> "lit", val |-> v, name |-> ""]
ParamWeight(p) == [tag |-> "param", val |-> Zero, name |-> p]

WeightExprs == {LitWeight(Half), ParamWeight("p")}

MachineTransition(in, out, dest, weight) ==
  [in |-> in, out |-> out, dest |-> dest, weight |-> weight]

inputEmpty(t) == t.in = ""
outputEmpty(t) == t.out = ""
isSilent(t) == inputEmpty(t) /\ outputEmpty(t)

nStates(m) == Cardinality(DOMAIN m.state)

StateIndices(m) == 0 .. (nStates(m) - 1)

TransOf(m, s) == m.state[s].trans

\* Machine::isAdvancingMachine: no silent i->j transitions where j<i
isAdvancingMachine(m) ==
  \A s \in StateIndices(m) : \A i \in DOMAIN TransOf(m, s) :
    isSilent(TransOf(m, s)[i]) => ~(TransOf(m, s)[i].dest < s)

\* Machine::isAligningMachine: at most one i->j transition with given labels
isAligningMachine(m) ==
  \A s \in StateIndices(m) : \A i, j \in DOMAIN TransOf(m, s) :
    (i # j) =>
      <<TransOf(m, s)[i].in, TransOf(m, s)[i].out, TransOf(m, s)[i].dest>>
        # <<TransOf(m, s)[j].in, TransOf(m, s)[j].out, TransOf(m, s)[j].dest>>

\* every transition of the machine, in state then transition order
RECURSIVE AllTrans(_, _)
AllTrans(m, s) ==
  IF s >= nStates(m) THEN << >> ELSE TransOf(m, s) \o AllTrans(m, s + 1)

RECURSIVE Distinct(_, _)
Distinct(seq, seen) ==
  IF seq = << >> THEN << >>
  ELSE IF Head(seq) \in seen THEN Distinct(Tail(seq), seen)
  ELSE <<Head(seq)>> \o Distinct(Tail(seq), seen \cup {Head(seq)})

\* Machine::inputAlphabet / outputAlphabet: the distinct non-empty labels
inputAlphabet(m) ==
  LET all == AllTrans(m, 0)
  IN  Distinct([i \in DOMAIN all |-> all[i].in], {""})

outputAlphabet(m) ==
  LET all == AllTrans(m, 0)
  IN  Distinct([i \in DOMAIN all |-> all[i].out], {""})

\* Tokenizer: token 0 is the empty symbol, the symbols of the alphabet get
\* the tokens 1, 2, ... in the order of the alphabet
Tokenizer(alph) ==
  [tok2sym |-> [t \in 0 .. Len(alph) |-> IF t = 0 THEN "" ELSE alph[t]],
   sym2tok |-> [sym \in {""} \cup {alph[i] : i \in DOMAIN alph} |->
                  IF sym = "" THEN 0 ELSE CHOOSE t \in DOMAIN alph : alph[t] = sym]]

emptyToken == 0

\* ---------------------------------------------------------------------
\* Params and WeightAlgebra::eval
\* ---------------------------------------------------------------------
\* WeightAlgebra::eval (expr, defs): a literal is its value, a parameter is
\* looked up in defs and is an error when defs does not bind it
WeightEval(w, defs) ==
  IF w.tag = "lit" THEN [ok |-> TRUE, val |-> w.val]
  ELSE IF \E d \in defs : d[1] = w.name
       THEN [ok |-> TRUE, val |-> (CHOOSE d \in defs : d[1] = w.name)[2]]
       ELSE [ok |-> FALSE, val |-> Zero]

\* ---------------------------------------------------------------------
\* EvaluatedMachine::init (eval.cpp)
\* ---------------------------------------------------------------------
\* state (machine.nStates()): value-initialised EvaluatedMachineStates
EvaluatedMachineState ==
  [name |-> Null, nTransitions |-> 0, transOffset |-> 0,
   incoming |-> EmptyMap, outgoing |-> EmptyMap]

Trans(lw, ti) == [logWeight |-> lw, transIndex |-> ti]

\* adj[in][out].insert (StateTransMap::value_type (key, t))
AdjInsert(adj, in, out, key, t) ==
  LET ost == MapGet(adj, in, EmptyMap)
      stm == MapGet(ost, out, << >>)
  IN  MapPut(adj, in, MapPut(ost, out, StateTransMapInsert(stm, key, t)))

LogWeightAlwaysZero(trans, p) == [ok |-> TRUE, lw |-> LogZero]

\* const LogWeight lw = params ? log (WeightAlgebra::eval (...)) : 0.
LogWeightOf(trans, p) ==
  IF p.null THEN [ok |-> TRUE, lw |-> LogZero]
  ELSE LET v == WeightEval(trans.weight, p.defs)
       IN  [ok |-> v.ok, lw |-> IF v.ok THEN Log(v.val) ELSE LogZero]

\* ++ti
NextTransIndex(ti) == ti + 1

\* state[d].incoming[in][out].insert (value_type (s, Trans ({lw, ti})))
MirrorKeyedByDest(st, s, d, in, out, lw, ti) ==
  [st EXCEPT ![d].incoming = AdjInsert(@, in, out, d, Trans(lw, ti))]

MirrorIncoming(st, s, d, in, out, lw, ti) ==
  [st EXCEPT ![d].incoming = AdjInsert(@, in, out, s, Trans(lw, ti))]

\* the body of the loop over machine.state[s].trans, for the transition of
\* ordinal ti (the list is 1-based here, the ordinal 0-based as in the code)
EvalTransition(acc, m, p, s, ti) ==
  LET trans == TransOf(m, s)[ti + 1]
      d == trans.dest
      in == acc.inputTokenizer.sym2tok[trans.in]
      out == acc.outputTokenizer.sym2tok[trans.out]
      w == LogWeightOf(trans, p)
      st1 == [acc.state EXCEPT ![s].outgoing = AdjInsert(@, in, out, d, Trans(w.lw, ti))]
      st2 == MirrorIncoming(st1, s, d, in, out, w.lw, ti)
  IN  IF ~w.ok
      THEN [acc EXCEPT !.ok = FALSE, !.err = "UnboundParameter"]
      ELSE [acc EXCEPT !.state = st2, !.nEvals = @ + 1]

RECURSIVE TransLoop(_, _, _, _, _)
TransLoop(acc, m, p, s, ti) ==
  IF ~acc.ok \/ ti >= Len(TransOf(m, s)) THEN [acc |-> acc, ti |-> ti]
  ELSE TransLoop(EvalTransition(acc, m, p, s, ti), m, p, s, NextTransIndex(ti))

CloseStateOffsetIsCount(acc, s, ti, tiCum) ==
  [acc EXCEPT !.state[s].nTransitions = ti, !.state[s].transOffset = ti]

\* state[s].nTransitions = ti; state[s].transOffset = tiCum
CloseState(acc, s, ti, tiCum) ==
  [acc EXCEPT !.state[s].nTransitions = ti, !.state[s].transOffset = tiCum]

\* state[s].name = machine.state[s].name
SetName(acc, m, s) == [acc EXCEPT !.state[s].name = m.state[s].name]

RECURSIVE StateLoop(_, _, _, _, _)
StateLoop(acc, m, p, s, tiCum) ==
  IF ~acc.ok THEN acc
  ELSE IF s >= nStates(m) THEN [acc EXCEPT !.nTransitions = tiCum]
  ELSE LET named == SetName(acc, m, s)
           r == TransLoop(named, m, p, s, 0)
       IN  IF ~r.acc.ok THEN r.acc
           ELSE StateLoop(CloseState(r.acc, s, r.ti, tiCum), m, p, s + 1, tiCum + r.ti)

\* the constructors' member initialisers
Members(m) ==
  [ok |-> TRUE, err |-> "", nEvals |-> 0,
   inputTokenizer |-> Tokenizer(inputAlphabet(m)),
   outputTokenizer |-> Tokenizer(outputAlphabet(m)),
   state |-> [s \in StateIndices(m) |-> EvaluatedMachineState],
   nTransitions |-> 0]

NotSorted == "Machine is not topologically sorted"

initWithoutAssert(m, p) == StateLoop(Members(m), m, p, 0, 0)

initAssertLast(m, p) ==
  LET r == StateLoop(Members(m), m, p, 0, 0)
  IN  IF r.ok /\ ~isAdvancingMachine(m)
      THEN [r EXCEPT !.ok = FALSE, !.err = NotSorted]
      ELSE r

\* init (machine, params): the Assert, then the loop over the states
init(m, p) ==
  IF ~isAdvancingMachine(m)
  THEN [Members(m) EXCEPT !.ok = FALSE, !.err = NotSorted]
  ELSE StateLoop(Members(m), m, p, 0, 0)

EvaluatedMachineOf(r) ==
  [inputTokenizer |-> r.inputTokenizer, outputTokenizer |-> r.outputTokenizer,
   state |-> r.state, nTransitions |-> r.nTransitions]

\* ---------------------------------------------------------------------
\* EvaluatedMachine::explicitMachine (eval.cpp)
\* ---------------------------------------------------------------------
\* the entries of a nested adjacency map in iteration order (input token,
\* output token, then the StateTransMap's order)
RECURSIVE OutLoop(_, _, _)
OutLoop(ost, in, outs) ==
  IF outs = << >> THEN << >>
  ELSE [i \in DOMAIN ost[Head(outs)] |->
          [in |-> in, out |-> Head(outs),
           key |-> ost[Head(outs)][i].key, val |-> ost[Head(outs)][i].val]]
       \o OutLoop(ost, in, Tail(outs))

RECURSIVE InLoop(_, _)
InLoop(adj, ins) ==
  IF ins = << >> THEN << >>
  ELSE OutLoop(adj[Head(ins)], Head(ins), SortedKeys(DOMAIN adj[Head(ins)]))
       \o InLoop(adj, Tail(ins))

RECURSIVE ByTransIndex(_)
ByTransIndex(entries) ==
  IF entries = << >> THEN << >>
  ELSE LET lo == CHOOSE i \in DOMAIN entries :
                   \A j \in DOMAIN entries :
                     entries[i].val.transIndex <= entries[j].val.transIndex
       IN  <<entries[lo]>>
           \o ByTransIndex([k \in 1 .. (Len(entries) - 1) |->
                              IF k < lo THEN entries[k] ELSE entries[k + 1]])

AdjEntriesByTransIndex(adj) == ByTransIndex(InLoop(adj, SortedKeys(DOMAIN adj)))

\* for (i_ostm: outgoing) for (o_stm: i_ostm.second) for (s_t: o_stm.second)
AdjEntries(adj) == InLoop(adj, SortedKeys(DOMAIN adj))

explicitMachine(e) ==
  [state |-> [s \in DOMAIN e.state |->
     [name |-> e.state[s].name,
      trans |-> LET entries == AdjEntries(e.state[s].outgoing)
                IN  [i \in DOMAIN entries |->
                       MachineTransition(e.inputTokenizer.tok2sym[entries[i].in],
                                         e.outputTokenizer.tok2sym[entries[i].out],
                                         entries[i].key,
                                         LitWeight(Exp(entries[i].val.logWeight)))]]]]

\* ---------------------------------------------------------------------
\* EvaluatedMachine::sumInTrans (eval.cpp)
\* ---------------------------------------------------------------------
SuspiciouslyLargeProbabilityWarningThreshold == <<101, 100>>

\* the body of the loop over ost.at(nullToken):
\*   p = exp (logWeight); oneMinusNullTrans[src][dest] -= p; pExit[src] += p
SubtractNullTrans(acc, src, e) ==
  LET p == Exp(e.val.logWeight)
      pExit == RatAdd(acc.pExit[src], p)
  IN  [oneMinusNullTrans |-> [acc.oneMinusNullTrans EXCEPT ![src][e.key] = RatSub(@, p)],
       pExit |-> [acc.pExit EXCEPT ![src] = pExit],
       warned |-> acc.warned
                  \/ RatLess(SuspiciouslyLargeProbabilityWarningThreshold, pExit)]

RECURSIVE NullEntryLoop(_, _, _, _)
NullEntryLoop(acc, src, stm, i) ==
  IF i > Len(stm) THEN acc
  ELSE NullEntryLoop(SubtractNullTrans(acc, src, stm[i]), src, stm, i + 1)

RECURSIVE NullInLoop(_, _, _, _)
NullInLoop(acc, src, adj, ins) ==
  IF ins = << >> THEN acc
  ELSE LET ost == adj[Head(ins)]
           next == IF emptyToken \in DOMAIN ost
                   THEN NullEntryLoop(acc, src, ost[emptyToken], 1)
                   ELSE acc
       IN  NullInLoop(next, src, adj, Tail(ins))

RECURSIVE NullSrcLoop(_, _, _)
NullSrcLoop(acc, e, src) ==
  IF src >= Cardinality(DOMAIN e.state) THEN acc
  ELSE NullSrcLoop(
         NullInLoop([acc EXCEPT !.oneMinusNullTrans[src][src] = One],
                    src, e.state[src].outgoing,
                    SortedKeys(DOMAIN e.state[src].outgoing)),
         e, src + 1)

\* oneMinusNullTrans, pExit and the warning, as the first loop leaves them
NullTransMatrix(e) ==
  NullSrcLoop([oneMinusNullTrans |-> [s \in DOMAIN e.state |-> [d \in DOMAIN e.state |-> Zero]],
               pExit |-> [s \in DOMAIN e.state |-> Zero],
               warned |-> FALSE], e, 0)

RemoveAt(seq, j) == [i \in 1 .. (Len(seq) - 1) |-> IF i < j THEN seq[i] ELSE seq[i + 1]]

RECURSIVE Det(_, _, _)
RECURSIVE DetRow(_, _, _, _)
\* determinant of the sub-matrix of A with the rows R and the columns C
Det(A, R, C) ==
  IF R = << >> THEN One ELSE DetRow(A, R, C, 1)
DetRow(A, R, C, j) ==
  IF j > Len(C) THEN Zero
  ELSE LET term == RatMul(A[Head(R)][C[j]], Det(A, Tail(R), RemoveAt(C, j)))
       IN  RatAdd(IF j % 2 = 1 THEN term ELSE RatSub(Zero, term),
                  DetRow(A, R, C, j + 1))

IndexSeq(A) == SortedKeys(DOMAIN A)

Without(seq, x) == SelectSeq(seq, LAMBDA y : y # x)

Determinant(A) == Det(A, IndexSeq(A), IndexSeq(A))

\* gsl_linalg_LU_decomp, gsl_linalg_LU_invert of an invertible matrix: the
\* inverse, entry (i, j) being the cofactor (j, i) over the determinant
Inverse(A) ==
  LET det == Determinant(A)
      ix == IndexSeq(A)
  IN  [i \in DOMAIN A |-> [j \in DOMAIN A |->
        LET c == Det(A, Without(ix, j), Without(ix, i))
            signed == IF (i + j) % 2 = 0 THEN c ELSE RatSub(Zero, c)
        IN  RatDiv(signed, det)]]

\* log_matrix
log_matrix(G) == [i \in DOMAIN G |-> [j \in DOMAIN G |-> Log(G[i][j])]]

\* what gsl_linalg_LU_invert leaves of a singular matrix when it returns:
\* entries that are not finite numbers
NonFinite(A) == [i \in DOMAIN A |-> [j \in DOMAIN A |-> [k |-> "nonfinite", x |-> Zero]]]

\* the outcomes of sumInTrans: the logarithm of the inverse; for a singular
\* matrix either the GSL error handler ends the process or the division by
\* the zero pivot goes through and the entries are not finite
sumInTrans(e) ==
  LET a == NullTransMatrix(e)
      A == a.oneMinusNullTrans
  IN  IF Determinant(A) # Zero
      THEN {[kind |-> "matrix", warned |-> a.warned, L |-> log_matrix(Inverse(A))]}
      ELSE {[kind |-> "abort", warned |-> a.warned, L |-> << >>],
            [kind |-> "matrix", warned |-> a.warned, L |-> NonFinite(A)]}

\* ---------------------------------------------------------------------
\* The machines the model is run on
\* ---------------------------------------------------------------------
StateNames == <<"s1", "s2", "s3", "s4">>

Transitions(n) ==
  {MachineTransition(l[1], l[2], dest, w) :
     l \in Labels, dest \in 0 .. (n - 1), w \in WeightExprs}

\* the machine of n states whose transitions are the list flat of
\* [src, t] records, each state keeping its transitions in list order
MachineOf(n, flat) ==
  [state |-> [s \in 0 .. (n - 1) |->
     [name |-> StateNames[n - s],
      trans |-> LET mine == SelectSeq(flat, LAMBDA x : x.src = s)
                IN  [i \in DOMAIN mine |-> mine[i].t]]]]

\* the lists of k transitions of a machine of n states, sources ascending
FlatLists(n, k) == [1 .. k -> [src : 0 .. (n - 1), t : Transitions(n)]]

Ascending(flat) == \A i \in 1 .. (Len(flat) - 1) : flat[i].src <= flat[i + 1].src

AllOnes == [null |-> FALSE, defs |-> {<<"p", One>>}]
NoDefs == [null |-> FALSE, defs |-> {}]
NoParams == [null |-> TRUE, defs |-> {}]

ParamsChoices == {AllOnes, NoDefs, NoParams}

\* ---------------------------------------------------------------------
\* Actions on the EvaluatedMachine
\* ---------------------------------------------------------------------
NoRet == [kind |-> "none", warned |-> FALSE, L |-> << >>, m |-> << >>]

\* EvaluatedMachine::EvaluatedMachine (machine, params) and (machine)
Construct(p) ==
  /\ pc = "new"
  /\ LET r == init(machine, p)
     IN  /\ params' = p
         /\ nEvals' = r.nEvals
         /\ err' = r.err
         /\ IF r.ok
            THEN pc' = "built" /\ em' = <<EvaluatedMachineOf(r)>>
            ELSE pc' = "failed" /\ em' = << >>
  /\ UNCHANGED <<machine, ret>>
  /\ UNCHANGED <<paramVars, callerVars>>

ExplicitMachine ==
  /\ pc = "built"
  /\ ret' = [kind |-> "machine", warned |-> FALSE, L |-> << >>,
             m |-> explicitMachine(em[1])]
  /\ UNCHANGED <<machine, params, pc, em, err, nEvals>>
  /\ UNCHANGED <<paramVars, callerVars>>

SumInTrans ==
  /\ pc = "built"
  /\ \E r \in sumInTrans(em[1]) :
       /\ ret' = [kind |-> r.kind, warned |-> r.warned, L |-> r.L, m |-> << >>]
       /\ pc' = IF r.kind = "abort" THEN "aborted" ELSE pc
  /\ UNCHANGED <<machine, params, em, err, nEvals>>
  /\ UNCHANGED <<paramVars, callerVars>>

InitEval ==
  /\ \E n \in 1 .. MaxStates, k \in 0 .. MaxTrans :
       \E flat \in FlatLists(n, k) :
         /\ Ascending(flat)
         /\ machine = MachineOf(n, flat)
  /\ params = NoParams
  /\ pc = "new"
  /\ em = << >>
  /\ err = ""
  /\ nEvals = 0
  /\ ret = NoRet

InitParamsIdle ==
  /\ param = {}
  /\ text = << >>
  /\ recv = {}
  /\ ppc = "idle"

InitCallerIdle ==
  /\ bcm = [nKmers |-> 1, components |-> 1]
  /\ kmers = <<0, 0, 0, 0>>
  /\ idx = << >>

Init == InitEval /\ InitParamsIdle /\ InitCallerIdle

Next ==
  \/ \E p \in ParamsChoices : Construct(p)
  \/ ExplicitMachine

Spec == Init /\ [][Next]_vars

NextSum ==
  \/ \E p \in {AllOnes, NoParams} : Construct(p)
  \/ SumInTrans

SpecSum == Init /\ [][NextSum]_vars

\* ---------------------------------------------------------------------
\* Properties of the EvaluatedMachine
\* ---------------------------------------------------------------------
Built == pc \in {"built", "aborted"}

SilentBackEdge(m) ==
  \E s \in StateIndices(m) : \E i \in DOMAIN TransOf(m, s) :
    isSilent(TransOf(m, s)[i]) /\ TransOf(m, s)[i].dest < s

SilentSelfLoop(m) ==
  \E s \in StateIndices(m) : \E i \in DOMAIN TransOf(m, s) :
    isSilent(TransOf(m, s)[i]) /\ TransOf(m, s)[i].dest = s

AllWeightsEvaluate(m, p) ==
  p.null \/ \A s \in StateIndices(m) : \A i \in DOMAIN TransOf(m, s) :
              WeightEval(TransOf(m, s)[i].weight, p.defs).ok

\* C1: constructing from a machine that is not advancing fails with the
\* fatal error before any transition is evaluated and leaves no object;
\* constructing from an advancing machine whose weights all evaluate
\* succeeds with one evaluated state per machine state, same index and name.
C1_ConstructionChecksAdvancing ==
  (pc # "new") =>
    /\ ~isAdvancingMachine(machine) =>
          pc = "failed" /\ err = NotSorted /\ nEvals = 0 /\ em = << >>
    /\ (isAdvancingMachine(machine) /\ AllWeightsEvaluate(machine, params)) =>
          /\ Built
          /\ Len(em) = 1
          /\ DOMAIN em[1].state = DOMAIN machine.state
          /\ \A s \in DOMAIN machine.state : em[1].state[s].name = machine.state[s].name

C1_Witness ==
  pc = "failed" /\ ~isAdvancingMachine(machine) /\ ~params.null
    /\ nStates(machine) = 2 /\ Len(TransOf(machine, 0)) = 1

RECURSIVE SumBelow(_, _)
SumBelow(e, s) ==
  IF s = 0 THEN 0 ELSE SumBelow(e, s - 1) + e.state[s - 1].nTransitions

StoredEdges(e) ==
  UNION {{<<s, i>> : i \in DOMAIN AdjEntries(e.state[s].outgoing)} : s \in DOMAIN e.state}

EdgeId(e, edge) ==
  e.state[edge[1]].transOffset
    + AdjEntries(e.state[edge[1]].outgoing)[edge[2]].val.transIndex

\* C3: transOffset is the prefix sum of nTransitions, the total is the sum,
\* every stored edge's transIndex is below its state's nTransitions, and
\* transOffset + transIndex is a bijection from the stored outgoing edges
\* onto 0 .. nTransitions - 1.
C3_DenseEdgeIds ==
  Built =>
    LET e == em[1]
        edges == StoredEdges(e)
    IN  /\ \A s \in DOMAIN e.state : e.state[s].transOffset = SumBelow(e, s)
        /\ e.nTransitions = SumBelow(e, Cardinality(DOMAIN e.state))
        /\ \A s \in DOMAIN e.state :
             \A i \in DOMAIN AdjEntries(e.state[s].outgoing) :
               AdjEntries(e.state[s].outgoing)[i].val.transIndex
                 \in 0 .. (e.state[s].nTransitions - 1)
        /\ \A x, y \in edges : EdgeId(e, x) = EdgeId(e, y) => x = y
        /\ {EdgeId(e, x) : x \in edges} = 0 .. (e.nTransitions - 1)

C3_Witness ==
  /\ pc = "built"
  /\ nStates(machine) = 2
  /\ em[1].state[1].transOffset = 1
  /\ em[1].state[1].nTransitions = 1

EntriesAt(adj, in, out) == MapGet(MapGet(adj, in, EmptyMap), out, << >>)

\* C8: incoming mirrors outgoing: outgoing[in][out] of s holds an entry for
\* d iff incoming[in][out] of d holds one for s, with the same logWeight
\* and transIndex, the transIndex being the ordinal of the transition among
\* the transitions of s; also with repeated (s, in, out, d).
C8_IncomingMirrorsOutgoing ==
  Built =>
    LET e == em[1]
    IN  \A s, d \in DOMAIN e.state :
          \A in \in DOMAIN e.inputTokenizer.tok2sym :
            \A out \in DOMAIN e.outputTokenizer.tok2sym :
              LET o == SelectSeq(EntriesAt(e.state[s].outgoing, in, out),
                                 LAMBDA x : x.key = d)
                  i == SelectSeq(EntriesAt(e.state[d].incoming, in, out),
                                 LAMBDA x : x.key = s)
              IN  /\ Len(o) = Len(i)
                  /\ \A k \in DOMAIN o :
                       /\ o[k].val = i[k].val
                       /\ LET t == TransOf(machine, s)[o[k].val.transIndex + 1]
                          IN  /\ t.dest = d
                              /\ e.inputTokenizer.sym2tok[t.in] = in
                              /\ e.outputTokenizer.sym2tok[t.out] = out

C8_Witness ==
  /\ pc = "built"
  /\ ~isAligningMachine(machine)
  /\ Len(TransOf(machine, 0)) = 2
  /\ TransOf(machine, 0)[1].dest = 1
  /\ Len(EntriesAt(em[1].state[1].incoming, 1, 0)) = 2

\* a transition with its weight evaluated under the binding defs
Valued(t, defs) ==
  [in |-> t.in, out |-> t.out, dest |-> t.dest, w |-> WeightEval(t.weight, defs).val]

ValuedSeq(ts, defs) == [i \in DOMAIN ts |-> Valued(ts[i], defs)]

Count(seq, x) == Cardinality({i \in DOMAIN seq : seq[i] = x})

Range(seq) == {seq[i] : i \in DOMAIN seq}

SameMultiset(a, b) ==
  /\ Len(a) = Len(b)
  /\ \A x \in Range(a) \cup Range(b) : Count(a, x) = Count(b, x)

GroupOf(t) == <<t.in, t.out, t.dest>>

InGroup(seq, g) == SelectSeq(seq, LAMBDA t : GroupOf(t) = g)

RoundTripped == pc = "built" /\ ~params.null /\ ret.kind = "machine"

SameEdge(t, u) == t.in = u.in /\ t.out = u.out /\ t.dest = u.dest

SortKey(x) == <<x.in, x.out, x.key, x.val.transIndex>>

LexLess(a, b) ==
  \E i \in 1 .. 4 : a[i] < b[i] /\ \A j \in 1 .. (i - 1) : a[j] = b[j]

Summed == Built /\ ret.kind \in {"matrix", "abort"}

\* L >= 0 for an entry of the returned matrix
NonNegativeLog(l) == l.k = "fin" /\ RatLeq(One, l.x)

HasNullExit(m, s) == \E i \in DOMAIN TransOf(m, s) : outputEmpty(TransOf(m, s)[i])

\* one state whose only transition is an output-empty self-loop of weight 1/2
HalfSelfLoop ==
  /\ nStates(machine) = 1
  /\ Len(TransOf(machine, 0)) = 1
  /\ outputEmpty(TransOf(machine, 0)[1])
  /\ EntriesAt(em[1].state[0].outgoing,
               em[1].inputTokenizer.sym2tok[TransOf(machine, 0)[1].in], emptyToken)[1]
       .val.logWeight = Log(Half)

DiagonalAtLeastOne ==
  /\ \A s \in DOMAIN em[1].state :
       /\ NonNegativeLog(ret.L[s][s])
       /\ ~HasNullExit(machine, s) => ret.L[s][s] = Log(One)
  /\ HalfSelfLoop => ret.L[0][0] = Log(<<2, 1>>)

Singular == Determinant(NullTransMatrix(em[1]).oneMinusNullTrans) = Zero

\* C5: for every advancing machine the matrix that sumInTrans returns has
\* L[s][s] >= 0, L[s][s] = log(1) where s has no output-empty transition,
\* and log(2) for the self-loop of weight 0.5.  Stated for the machines
\* whose I - N is invertible, the singular ones being the subject of C6.
C5_DiagonalNonNegative ==
  (Built /\ ret.kind = "matrix" /\ ~Singular) => DiagonalAtLeastOne

\* the output-empty weights leaving every state sum to at most 1 and
\* I - N is invertible
Convergent ==
  LET a == NullTransMatrix(em[1])
  IN  /\ Determinant(a.oneMinusNullTrans) # Zero
      /\ \A s \in DOMAIN a.pExit : RatLeq(a.pExit[s], One)

\* Where the series I + N + N^2 + ... converges the diagonal is as C5 says.
DiagonalNonNegativeWhenConvergent ==
  (Built /\ ret.kind = "matrix" /\ Convergent) => DiagonalAtLeastOne

HalfSelfLoopSummed ==
  /\ pc = "built"
  /\ ret.kind = "matrix"
  /\ Convergent
  /\ HalfSelfLoop
  /\ ret.L[0][0] = Log(<<2, 1>>)

\* C6: when I - N is not invertible sumInTrans fails with NonConvergent and
\* returns no matrix.
C6_SingularFailsNonConvergent ==
  (Summed /\ Singular) => ret.kind = "NonConvergent"

\* ---------------------------------------------------------------------
\* Params::writeJson / Params::readJson (params.cpp)
\* ---------------------------------------------------------------------
\* A Params::param map is a set of <<name, value>> pairs with distinct
\* names; a name is a sequence of characters, a value an integral double.
\* The stream holds characters; the characters of one printed number are
\* one element, [c |-> "#", n |-> the number the digits denote].
Chr(c) == [c |-> c, n |-> 0]
Num(n) == [c |-> "#", n |-> n]

CharCode == [c \in {"\"", "a", "b", "z"} |->
               IF c = "\"" THEN 34 ELSE IF c = "a" THEN 97 ELSE IF c = "b" THEN 98 ELSE 122]

\* std::string operator<
RECURSIVE StrLess(_, _)
StrLess(a, b) ==
  IF b = << >> THEN FALSE
  ELSE IF a = << >> THEN TRUE
  ELSE IF CharCode[Head(a)] # CharCode[Head(b)] THEN CharCode[Head(a)] < CharCode[Head(b)]
  ELSE StrLess(Tail(a), Tail(b))

\* the entries of a std::map<string,double> in iteration order
RECURSIVE MapEntries(_)
MapEntries(m) ==
  IF m = {} THEN << >>
  ELSE LET first == CHOOSE e \in m : \A f \in m : f = e \/ StrLess(e[1], f[1])
       IN  <<first>> \o MapEntries(m \ {first})

\* param[key] = value
ParamPut(m, key, value) == {e \in m : e[1] # key} \cup {<<key, value>>}

RECURSIVE Digits(_)
Digits(v) == IF v < 10 THEN 1 ELSE 1 + Digits(v \div 10)

RECURSIVE Pow10(_)
Pow10(n) == IF n = 0 THEN 1 ELSE 10 * Pow10(n - 1)

\* the precision of an ostream that nobody has changed
DefaultPrecision == 6

\* out << double: the value rounded to DefaultPrecision significant digits
\* (to nearest, ties to even), which is what reading the digits back gives
PrintedDouble(v) ==
  IF Digits(v) <= DefaultPrecision THEN v
  ELSE LET scale == Pow10(Digits(v) - DefaultPrecision)
           q == v \div scale
           r == v % scale
           up == (2 * r > scale) \/ (2 * r = scale /\ q % 2 = 1)
       IN  (IF up THEN q + 1 ELSE q) * scale

Chars(name) == [i \in DOMAIN name |-> Chr(name[i])]

\* the loop of writeJson over param
RECURSIVE WriteEntries(_, _)
WriteEntries(entries, n) ==
  IF entries = << >> THEN << >>
  ELSE (IF n > 0 THEN <<Chr(",")>> ELSE << >>)
       \o <<Chr("\"")>> \o Chars(Head(entries)[1]) \o <<Chr("\""), Chr(":")>>
       \o <<Num(PrintedDouble(Head(entries)[2]))>>
       \o WriteEntries(Tail(entries), n + 1)

writeJson(m) == <<Chr("{")>> \o WriteEntries(MapEntries(m), 0) \o <<Chr("}"), Chr("\n")>>

\* in >> pj: the parser of a JSON object of numbers. The result is
\* [ok, members]: the members in text order, or ok = FALSE on a parse error.
ParseFail == [ok |-> FALSE, members |-> << >>]

\* the position of the quote that closes a string starting at i (0: none)
RECURSIVE ClosingQuote(_, _)
ClosingQuote(t, i) ==
  IF i > Len(t) THEN 0
  ELSE IF t[i].c = "\"" THEN i
  ELSE IF t[i].c = "#" THEN 0
  ELSE ClosingQuote(t, i + 1)

RECURSIVE ParseMembers(_, _, _)
ParseMembers(t, i, acc) ==
  IF i + 1 > Len(t) \/ t[i].c # "\"" THEN ParseFail
  ELSE LET q == ClosingQuote(t, i + 1)
       IN  IF q = 0 \/ q + 3 > Len(t) THEN ParseFail
           ELSE IF t[q + 1].c # ":" \/ t[q + 2].c # "#" THEN ParseFail
           ELSE LET name == [k \in 1 .. (q - i - 1) |-> t[i + k].c]
                    got == Append(acc, <<name, t[q + 2].n>>)
                IN  IF t[q + 3].c = "}" THEN
                      (IF q + 4 = Len(t) /\ t[q + 4].c = "\n"
                       THEN [ok |-> TRUE, members |-> got] ELSE ParseFail)
                    ELSE IF t[q + 3].c = "," THEN ParseMembers(t, q + 4, got)
                    ELSE ParseFail

ParseJson(t) ==
  IF Len(t) < 3 \/ t[1].c # "{" THEN ParseFail
  ELSE IF t[2].c = "}" THEN
    (IF Len(t) = 3 /\ t[3].c = "\n" THEN [ok |-> TRUE, members |-> << >>] ELSE ParseFail)
  ELSE ParseMembers(t, 2, << >>)

\* for (iter = pj.begin(); ...) param[iter.key()] = iter.value().get<double>()
RECURSIVE ReadMembers(_, _)
ReadMembers(m, members) ==
  IF members = << >> THEN m
  ELSE ReadMembers(ParamPut(m, Head(members)[1], Head(members)[2]), Tail(members))

\* readJson (const json&): param.clear(), then the loop
readJson(old, pj) == ReadMembers({}, pj.members)

ParamNames == {<<"a">>, <<"a", "\"">>, <<"b">>}

ParamValues == {1, 25, 1234567}

ParamMaps ==
  {m \in SUBSET (ParamNames \X ParamValues) :
     \A e, f \in m : e[1] = f[1] => e = f}

WriteJson ==
  /\ ppc = "init"
  /\ text' = writeJson(param)
  /\ ppc' = "written"
  /\ UNCHANGED <<param, recv>>
  /\ UNCHANGED <<evalVars, callerVars>>

\* Params::readJson (istream&): a parse error is thrown before param is touched
ReadJson ==
  /\ ppc = "written"
  /\ LET pj == ParseJson(text)
     IN  IF pj.ok
         THEN recv' = readJson(recv, pj) /\ ppc' = "read"
         ELSE recv' = recv /\ ppc' = "readFailed"
  /\ UNCHANGED <<param, text>>
  /\ UNCHANGED <<evalVars, callerVars>>

InitEvalIdle ==
  /\ machine = MachineOf(1, << >>)
  /\ params = NoParams
  /\ pc = "idle"
  /\ em = << >>
  /\ err = ""
  /\ nEvals = 0
  /\ ret = NoRet

InitParams ==
  /\ param \in ParamMaps
  /\ recv \in {{}, {<<(<<"z">>), 25>>}}
  /\ text = << >>
  /\ ppc = "init"
  /\ InitEvalIdle
  /\ InitCallerIdle

NextParams == WriteJson \/ ReadJson

SpecParams == InitParams /\ [][NextParams]_vars

\* C7: reading back what writeJson wrote gives a Params with the mapping of
\* the Params written: the same names with the same values, and nothing
\* left of what the reading object held before.
C7_WriteReadIsIdentity ==
  (ppc \in {"read", "readFailed"}) => (ppc = "read" /\ recv = param)

\* ---------------------------------------------------------------------
\* BaseCallingMachine state layout (nano/caller.h)
\* ---------------------------------------------------------------------
MaxKmers == 4
MaxComponents == 3

kmerEmit(b, kmer, component) == 1 + component * b.nKmers + kmer

kmerEndAfterAll(b, kmer) == 1 + (b.components + 1) * b.nKmers + kmer

kmerEnd(b, kmer) == 1 + b.components * b.nKmers + kmer

kmerStart(b, kmer) == 1 + (b.components + 1) * b.nKmers + kmer

\* one query of the three index functions
Layout(k, c, k1, k2) ==
  /\ idx = << >>
  /\ kmers' = <<k, c, k1, k2>>
  /\ idx' = <<kmerEmit(bcm, k, c), kmerEnd(bcm, k1), kmerStart(bcm, k2)>>
  /\ UNCHANGED bcm
  /\ UNCHANGED <<evalVars, paramVars>>

InitCaller ==
  /\ bcm \in [nKmers : 1 .. MaxKmers, components : 1 .. MaxComponents]
  /\ kmers = <<0, 0, 0, 0>>
  /\ idx = << >>
  /\ InitEvalIdle
  /\ InitParamsIdle

NextCaller ==
  \E k, k1, k2 \in 0 .. (bcm.nKmers - 1), c \in 0 .. (bcm.components - 1) :
    Layout(k, c, k1, k2)

SpecCaller == InitCaller /\ [][NextCaller]_vars

KmerRange == 0 .. (bcm.nKmers - 1)
ComponentRange == 0 .. (bcm.components - 1)

\* C10: for nKmers, components >= 1 and kmers and a component in range,
\* 1 <= kmerEmit < kmerEnd < kmerStart <= (components + 2) * nKmers; the
\* three functions are injective with pairwise disjoint ranges without
\* state 0, so emit -> end and end -> start go forward and an edge can go
\* backward only into an emit state.
C10_LayoutIsOrdered ==
  (idx # << >>) =>
    /\ 1 <= idx[1] /\ idx[1] < idx[2] /\ idx[2] < idx[3]
    /\ idx[3] <= (bcm.components + 2) * bcm.nKmers
    /\ \A k \in KmerRange, c \in ComponentRange :
         /\ kmerEmit(bcm, k, c) = idx[1] => <<k, c>> = <<kmers[1], kmers[2]>>
         /\ kmerEmit(bcm, k, c) # idx[2] /\ kmerEmit(bcm, k, c) # idx[3]
         /\ kmerEmit(bcm, k, c) # 0
    /\ \A k \in KmerRange :
         /\ kmerEnd(bcm, k) = idx[2] => k = kmers[3]
         /\ kmerStart(bcm, k) = idx[3] => k = kmers[4]
         /\ kmerEnd(bcm, k) # idx[1] /\ kmerEnd(bcm, k) # idx[3]
         /\ kmerStart(bcm, k) # idx[1] /\ kmerStart(bcm, k) # idx[2]
         /\ kmerEnd(bcm, k) # 0 /\ kmerStart(bcm, k) # 0
         /\ idx[1] < kmerEnd(bcm, k) /\ idx[2] < kmerStart(bcm, k)
         /\ kmerEnd(bcm, k) < idx[3]

C10_Witness ==
  /\ idx # << >>
  /\ bcm.nKmers = MaxKmers
  /\ bcm.components = MaxComponents
  /\ kmers = <<MaxKmers - 1, MaxComponents - 1, 0, 0>>
  /\ idx[2] = idx[1] + 1

====
